---- MODULE Spec2Model ----
(***************************************************************************)
(* foldercompare (src/src/foldercompare/cli.py): the concurrent hashing    *)
(* pipeline (amain, hash_file_worker, hash_file), path normalisation       *)
(* (normalize_paths) and the three-way comparison (compare_hashes).        *)
(*                                                                         *)
(* Three specifications share the module:                                  *)
(*   Spec / FairSpec : amain and its pool of hash_file_worker tasks        *)
(*   SpecCmp         : compare_hashes applied to bounded pairs of mappings *)
(*   SpecNorm        : normalize_paths applied to bounded mappings         *)
(***************************************************************************)
EXTENDS Integers, Sequences, FiniteSets, TLC

VARIABLES
    \* ---- the run's inputs (fixed after Init) ----
    tree,          \* tree[d]: the paths walk_all_files yields for directory d
    b_given,       \* whether amain's b argument is truthy
    unreadable,    \* the file (none or one) whose open()/read() raises in hash_file
    j_arg,         \* the -j argument (0: not given)
    cpus,          \* multiprocessing.cpu_count() (0: NotImplementedError)
    \* ---- amain ----
    pc,            \* amain's position
    num_workers,   \* the resolved pool size
    spawned,       \* workers spawned so far
    to_walk,       \* what the current walk_all_files generator has yet to yield
    work_queue,    \* curio.Queue: the items waiting
    task_count,    \* curio.Queue: puts not yet matched by task_done
    output,        \* output[d][p] = digest
    output_lock,   \* the worker holding output_lock, 0 if free
    returned,      \* the value amain returned, NotReturned before
    \* ---- hash_file_worker tasks ----
    wpc,           \* wpc[w]: worker w's position
    witem,         \* witem[w]: the item worker w dequeued last
    wdigest,       \* wdigest[w]: the digest hash_file returned to worker w
    dequeued,      \* history: dequeued[i] = <<worker, ...>> the workers that got item i
    \* ---- compare_hashes, applied on its own ----
    cmp_pc,        \* "call" before compare_hashes is applied, "done" after
    cmp_a, cmp_b,  \* its arguments
    cmp_out,       \* its result <<bad, a_missing, b_missing>>, as sets
    \* ---- normalize_paths, applied on its own ----
    np_pc,         \* "call" before, "done" after, "raised" on ValueError
    np_in,         \* its argument
    np_out,        \* its result <<prefix, normalized>>
    \* ---- main ----
    args,          \* the command line: mode, whether <dir_b> is given, isdir of each
    on_disk,       \* on_disk[d]: path -> digest of tree d, or of manifest d
    m_pc,          \* main's position
    m_output,      \* main's output dict
    m_norm,        \* m_norm[d] = <<prefix, normalized>> of side d
    m_sets,        \* <<bad, a_missing, b_missing>> of line 159, as sets
    stdout,        \* what main printed: lines of the listing, or blocks
    exit_status,   \* the process's exit status, NotExited while main runs
    raised,        \* the exception that ended main, "" if none
    amain_calls,   \* how often main ran amain
    compare_calls  \* how often main called compare_hashes

varsPipe == <<tree, b_given, unreadable, j_arg, cpus, pc, num_workers,
              spawned, to_walk, work_queue, task_count, output, output_lock,
              returned, wpc, witem, wdigest, dequeued>>
varsCmp  == <<cmp_pc, cmp_a, cmp_b, cmp_out>>
varsNorm == <<np_pc, np_in, np_out>>
varsMain == <<args, on_disk, m_pc, m_output, m_norm, m_sets, stdout,
              exit_status, raised, amain_calls, compare_calls>>
vars     == <<varsPipe, varsCmp, varsNorm, varsMain>>

----------------------------------------------------------------------------
(* Bounds *)

\* files of one run, both trees together
MaxFiles == 3
\* largest pool size tried
MaxWorkers == 2
\* distinct file contents
MaxContents == 2

Paths    == 1..MaxFiles
Workers  == 1..MaxWorkers
Contents == 1..MaxContents
Sides    == {"a", "b"}
Items    == Sides \X Paths

NotExited   == -1
NoItem      == <<"none", 0>>
NoDigest    == <<"none", 0>>
NotReturned == [d \in {"not returned"} |-> <<>>]
NotImplemented == 0

----------------------------------------------------------------------------
(* hash_file *)

\* hasher.hexdigest() of a byte content: a function of the bytes alone
hexdigest(content) == <<"hex", content>>

\* the bytes on disk: file p of tree "a" and file p of tree "b" differ, file p
\* of "b" equals file p + 1 of "a"
FileContent(item) ==
    ((item[2] + (IF item[1] = "b" THEN 1 ELSE 0)) % MaxContents) + 1

\* lines 48-65: hash_file(path, hash_func) for a file that can be read
hash_file(item) == hexdigest(FileContent(item))


----------------------------------------------------------------------------
(* The dict operations the program uses *)

EmptyDict == <<>>

DictSetDroppingOthers(d, k, v) == [q \in {k} |-> v]

\* d[k] = v
DictSet(d, k, v) == [q \in (DOMAIN d) \cup {k} |-> IF q = k THEN v ELSE d[q]]

----------------------------------------------------------------------------
(* amain: lines 87-114 *)

\* lines 96-100: the pool size when -j is absent or 0
DefaultWorkers(cpu_count) ==
    IF cpu_count = NotImplemented THEN 2 ELSE cpu_count + 1

ResolveWorkers(j, cpu_count) == IF j = 0 THEN DefaultWorkers(cpu_count) ELSE j

\* the files of the run
Files == {i \in Items : i[2] \in tree[i[1]]}

PipeIdle ==
    /\ tree = [d \in Sides |-> {}]
    /\ b_given = FALSE
    /\ unreadable = {}
    /\ j_arg = 0
    /\ cpus = 0
    /\ pc = "idle"
    /\ num_workers = 0
    /\ spawned = 0
    /\ to_walk = {}
    /\ work_queue = <<>>
    /\ task_count = 0
    /\ output = EmptyDict
    /\ output_lock = 0
    /\ returned = NotReturned
    /\ wpc = [w \in Workers |-> "unspawned"]
    /\ witem = [w \in Workers |-> NoItem]
    /\ wdigest = [w \in Workers |-> NoDigest]
    /\ dequeued = EmptyDict

\* lines 88-100: the queue, the lock, the output dict and the pool size
InitPipe ==
    /\ b_given \in BOOLEAN
    /\ tree \in [Sides -> {1..n : n \in 0..MaxFiles}]
    /\ (~b_given) => tree["b"] = {}
    /\ Cardinality(Files) <= MaxFiles
    /\ unreadable \in {{}} \cup {{f} : f \in Files}
    /\ j_arg \in 0..MaxWorkers
    /\ cpus \in {NotImplemented, 1}
    /\ (j_arg # 0) => cpus = 1
    /\ num_workers = ResolveWorkers(j_arg, cpus)
    /\ pc = "spawn"
    /\ spawned = 0
    /\ to_walk = {}
    /\ work_queue = <<>>
    /\ task_count = 0
    /\ output = [d \in (IF b_given THEN Sides ELSE {"a"}) |-> EmptyDict]
    /\ output_lock = 0
    /\ returned = NotReturned
    /\ wpc = [w \in Workers |-> "unspawned"]
    /\ witem = [w \in Workers |-> NoItem]
    /\ wdigest = [w \in Workers |-> NoDigest]
    /\ dequeued = [i \in Files |-> <<>>]

inputs == <<tree, b_given, unreadable, j_arg, cpus, num_workers>>
others == <<varsCmp, varsNorm, varsMain>>

SpawnBeyondPoolSize ==
    /\ pc = "spawn"
    /\ spawned < MaxWorkers
    /\ spawned' = spawned + 1
    /\ wpc' = [wpc EXCEPT ![spawned + 1] = "get"]
    /\ UNCHANGED <<others, inputs, pc, to_walk, work_queue, task_count, output,
                   output_lock, returned, witem, wdigest, dequeued>>

\* lines 101-103: spawn one hash_file_worker
Spawn ==
    /\ pc = "spawn"
    /\ spawned < num_workers
    /\ spawned' = spawned + 1
    /\ wpc' = [wpc EXCEPT ![spawned + 1] = "get"]
    /\ UNCHANGED <<others, inputs, pc, to_walk, work_queue, task_count, output,
                   output_lock, returned, witem, wdigest, dequeued>>

\* line 105: the pool is complete, walk_all_files(a) starts
StartWalkA ==
    /\ pc = "spawn"
    /\ spawned = num_workers
    /\ pc' = "put_a"
    /\ to_walk' = tree["a"]
    /\ UNCHANGED <<others, inputs, spawned, work_queue, task_count, output,
                   output_lock, returned, wpc, witem, wdigest, dequeued>>

\* curio.Queue.put: append, count the unfinished task
QueuePut(item) ==
    /\ work_queue' = Append(work_queue, item)
    /\ task_count' = task_count + 1

PutRegisteringPath ==
    /\ pc \in {"put_a", "put_b"}
    /\ \E p \in to_walk :
          /\ QueuePut(<<IF pc = "put_a" THEN "a" ELSE "b", p>>)
          /\ to_walk' = to_walk \ {p}
          /\ output' = [output EXCEPT ![IF pc = "put_a" THEN "a" ELSE "b"] =
                            DictSet(@, p, NoDigest)]
    /\ UNCHANGED <<others, inputs, pc, spawned, output_lock, returned,
                   wpc, witem, wdigest, dequeued>>

\* lines 105-106 and 108-109: the generator yields one more path, which is put
Put ==
    /\ pc \in {"put_a", "put_b"}
    /\ \E p \in to_walk :
          /\ QueuePut(<<IF pc = "put_a" THEN "a" ELSE "b", p>>)
          /\ to_walk' = to_walk \ {p}
    /\ UNCHANGED <<others, inputs, pc, spawned, output, output_lock, returned,
                   wpc, witem, wdigest, dequeued>>

\* lines 107-108: walk_all_files(a) is exhausted
EndWalkA ==
    /\ pc = "put_a"
    /\ to_walk = {}
    /\ IF b_given
          THEN pc' = "put_b" /\ to_walk' = tree["b"]
          ELSE pc' = "join" /\ to_walk' = {}
    /\ UNCHANGED <<others, inputs, spawned, work_queue, task_count, output,
                   output_lock, returned, wpc, witem, wdigest, dequeued>>

\* lines 109-111: walk_all_files(b) is exhausted
EndWalkB ==
    /\ pc = "put_b"
    /\ to_walk = {}
    /\ pc' = "join"
    /\ UNCHANGED <<others, inputs, spawned, to_walk, work_queue, task_count, output,
                   output_lock, returned, wpc, witem, wdigest, dequeued>>

JoinOpenWhenQueueEmpty == work_queue = <<>>

JoinNoWait == TRUE

\* curio.Queue.join returns once no put is unmatched by a task_done
JoinOpen == task_count = 0

\* line 111: await work_queue.join()
Join ==
    /\ pc = "join"
    /\ JoinOpen
    /\ pc' = "cancel"
    /\ UNCHANGED <<others, inputs, spawned, to_walk, work_queue, task_count, output,
                   output_lock, returned, wpc, witem, wdigest, dequeued>>

Live(w) == wpc[w] \notin {"unspawned", "crashed", "cancelled"}

\* line 112: await hashers.cancel_remaining(): every task still running gets
\* CancelledError where it stands; `async with` releases a held lock
CancelRemaining ==
    /\ pc = "cancel"
    /\ wpc' = [w \in Workers |-> IF Live(w) THEN "cancelled" ELSE wpc[w]]
    /\ output_lock' = 0
    /\ pc' = "return"
    /\ UNCHANGED <<others, inputs, spawned, to_walk, work_queue, task_count, output,
                   returned, witem, wdigest, dequeued>>

\* line 114: return output
Return ==
    /\ pc = "return"
    /\ returned' = output
    /\ pc' = "done"
    /\ UNCHANGED <<others, inputs, spawned, to_walk, work_queue, task_count, output,
                   output_lock, wpc, witem, wdigest, dequeued>>

----------------------------------------------------------------------------
(* hash_file_worker: lines 39-45 *)

GetWithoutRemoving(w) ==
    /\ wpc[w] = "get"
    /\ work_queue # <<>>
    /\ witem' = [witem EXCEPT ![w] = Head(work_queue)]
    /\ dequeued' = [dequeued EXCEPT ![Head(work_queue)] = Append(@, w)]
    /\ wpc' = [wpc EXCEPT ![w] = "hash"]
    /\ UNCHANGED <<others, inputs, pc, spawned, to_walk, work_queue,
                   task_count, output, output_lock, returned, wdigest>>

\* line 41: dir_id, path = await work_queue.get()
Get(w) ==
    /\ wpc[w] = "get"
    /\ work_queue # <<>>
    /\ witem' = [witem EXCEPT ![w] = Head(work_queue)]
    /\ work_queue' = Tail(work_queue)
    /\ dequeued' = [dequeued EXCEPT ![Head(work_queue)] = Append(@, w)]
    /\ wpc' = [wpc EXCEPT ![w] = "hash"]
    /\ UNCHANGED <<others, inputs, pc, spawned, to_walk, task_count, output,
                   output_lock, returned, wdigest>>

\* line 42: run_in_thread(hash_file, ...) returns the digest
HashDone(w) ==
    /\ wpc[w] = "hash"
    /\ witem[w] \notin unreadable
    /\ wdigest' = [wdigest EXCEPT ![w] = hash_file(witem[w])]
    /\ wpc' = [wpc EXCEPT ![w] = "lock"]
    /\ UNCHANGED <<others, inputs, pc, spawned, to_walk, work_queue, task_count,
                   output, output_lock, returned, witem, dequeued>>

\* lines 42, 56-60: open() or read() raises; nothing in hash_file_worker
\* catches it, so the task ends with the exception and never calls task_done
HashRaises(w) ==
    /\ wpc[w] = "hash"
    /\ witem[w] \in unreadable
    /\ wpc' = [wpc EXCEPT ![w] = "crashed"]
    /\ UNCHANGED <<others, inputs, pc, spawned, to_walk, work_queue, task_count,
                   output, output_lock, returned, witem, wdigest, dequeued>>

AcquireWithoutWaiting(w) ==
    /\ wpc[w] = "lock"
    /\ output_lock' = w
    /\ wpc' = [wpc EXCEPT ![w] = "insert"]
    /\ UNCHANGED <<others, inputs, pc, spawned, to_walk, work_queue, task_count,
                   output, returned, witem, wdigest, dequeued>>

\* line 43: async with output_lock (acquire)
Acquire(w) ==
    /\ wpc[w] = "lock"
    /\ output_lock = 0
    /\ output_lock' = w
    /\ wpc' = [wpc EXCEPT ![w] = "insert"]
    /\ UNCHANGED <<others, inputs, pc, spawned, to_walk, work_queue, task_count,
                   output, returned, witem, wdigest, dequeued>>

\* line 44: output[dir_id][path] = digest
Insert(w) ==
    /\ wpc[w] = "insert"
    /\ output' = [output EXCEPT ![witem[w][1]] =
                      DictSet(@, witem[w][2], wdigest[w])]
    /\ wpc' = [wpc EXCEPT ![w] = "release"]
    /\ UNCHANGED <<others, inputs, pc, spawned, to_walk, work_queue, task_count,
                   output_lock, returned, witem, wdigest, dequeued>>

ReleaseAfterTaskDone(w) ==
    /\ wpc[w] = "release"
    /\ wpc' = [wpc EXCEPT ![w] = "task_done"]
    /\ UNCHANGED <<others, inputs, pc, spawned, to_walk, work_queue, task_count,
                   output, output_lock, returned, witem, wdigest, dequeued>>

\* line 43: async with output_lock (release on leaving the block)
Release(w) ==
    /\ wpc[w] = "release"
    /\ output_lock' = 0
    /\ wpc' = [wpc EXCEPT ![w] = "task_done"]
    /\ UNCHANGED <<others, inputs, pc, spawned, to_walk, work_queue, task_count,
                   output, returned, witem, wdigest, dequeued>>

\* line 45: await work_queue.task_done(), then back to line 41
TaskDone(w) ==
    /\ wpc[w] = "task_done"
    /\ task_count' = task_count - 1
    /\ wpc' = [wpc EXCEPT ![w] = "get"]
    /\ UNCHANGED <<others, inputs, pc, spawned, to_walk, work_queue, output,
                   output_lock, returned, witem, wdigest, dequeued>>

CmpIdle ==
    /\ cmp_pc = "idle"
    /\ cmp_a = EmptyDict
    /\ cmp_b = EmptyDict
    /\ cmp_out = <<{}, {}, {}>>

NormIdle ==
    /\ np_pc = "idle"
    /\ np_in = EmptyDict
    /\ np_out = <<<<>>, EmptyDict>>

\* main is not running
MainIdle ==
    /\ args = [mode |-> "none", dir_b |-> FALSE, a_isdir |-> FALSE,
               b_isdir |-> FALSE]
    /\ on_disk = [d \in Sides |-> EmptyDict]
    /\ m_pc = "idle"
    /\ m_output = EmptyDict
    /\ m_norm = [d \in Sides |-> <<<<>>, EmptyDict>>]
    /\ m_sets = <<{}, {}, {}>>
    /\ stdout = <<>>
    /\ exit_status = NotExited
    /\ raised = ""
    /\ amain_calls = 0
    /\ compare_calls = 0

Init == InitPipe /\ CmpIdle /\ NormIdle /\ MainIdle

Next ==
    \/ Spawn
    \/ StartWalkA
    \/ Put
    \/ EndWalkA
    \/ EndWalkB
    \/ Join
    \/ CancelRemaining
    \/ Return
    \/ \E w \in Workers : Get(w)
    \/ \E w \in Workers : HashDone(w)
    \/ \E w \in Workers : HashRaises(w)
    \/ \E w \in Workers : Acquire(w)
    \/ \E w \in Workers : Insert(w)
    \/ \E w \in Workers : Release(w)
    \/ \E w \in Workers : TaskDone(w)

Spec == Init /\ [][Next]_vars


\* the steps of the orchestrator and of one worker task
amain ==
    Spawn \/ StartWalkA \/ Put \/ EndWalkA \/ EndWalkB \/ Join
        \/ CancelRemaining \/ Return

hash_file_worker(w) ==
    Get(w) \/ HashDone(w) \/ HashRaises(w) \/ Acquire(w) \/ Insert(w)
        \/ Release(w) \/ TaskDone(w)

\* curio runs every task that is ready, and a thread started by run_in_thread
\* finishes: no task that can step is passed over forever
FairSpec ==
    /\ Spec
    /\ WF_vars(amain)
    /\ \A w \in Workers : WF_vars(hash_file_worker(w))

----------------------------------------------------------------------------
(* The hashing pipeline: claims C4-C8 *)

\* what a run over the trees must produce: every file of each tree given,
\* under its path, with the digest of its bytes
ExpectedOutput ==
    [d \in (IF b_given THEN Sides ELSE {"a"}) |->
        [p \in tree[d] |-> hexdigest(FileContent(<<d, p>>))]]

Inserted(item) ==
    /\ item[1] \in DOMAIN output
    /\ item[2] \in DOMAIN output[item[1]]

WorkersOf(item) == {dequeued[item][n] : n \in 1..Len(dequeued[item])}

\* C4: whatever the pool size and the interleaving, the mapping amain returns
\* maps, for each side, exactly that side's enumerated paths to the digest of
\* each file.
C4_ReturnedMappingIsSchedulingIndependent ==
    pc = "done" => returned = ExpectedOutput

\* a run of two workers that returned and in which both workers got items
C4_Witness ==
    /\ pc = "done"
    /\ num_workers = 2
    /\ tree["a"] # {} /\ tree["b"] # {}
    /\ \E i1, i2 \in Files : WorkersOf(i1) = {1} /\ WorkersOf(i2) = {2}

InQueue(item) == \E n \in 1..Len(work_queue) : work_queue[n] = item

\* C5: an item is dequeued at most once, an item still queued has not been
\* dequeued, and when amain has returned every file was dequeued exactly once.
C5_EachItemDequeuedExactlyOnce ==
    \A i \in Files :
        /\ Len(dequeued[i]) <= 1
        /\ InQueue(i) => Len(dequeued[i]) = 0
        /\ pc = "done" => Len(dequeued[i]) = 1 /\ ~InQueue(i)

\* a returned run of at least two items, dequeued by different workers
C5_Witness ==
    /\ pc = "done"
    /\ \E i1, i2 \in Files : i1 # i2 /\ WorkersOf(i1) = {1} /\ WorkersOf(i2) = {2}

\* C6: amain is past work_queue.join() only when every enumerated file has
\* its digest in its side's mapping, and a worker is at task_done for an item
\* only when that item's digest is in the mapping.
C6_DrainBarrier ==
    /\ pc \in {"cancel", "return", "done"} => \A i \in Files : Inserted(i)
    /\ \A w \in Workers :
          wpc[w] = "task_done" =>
              /\ Inserted(witem[w])
              /\ output[witem[w][1]][witem[w][2]] = wdigest[w]

\* amain has just passed join() in a run of a full set of files and two workers
C6_Witness ==
    /\ pc = "cancel"
    /\ Cardinality(Files) = MaxFiles
    /\ num_workers = 2
    /\ tree["b"] # {}

Terminated(w) == wpc[w] \in {"unspawned", "crashed", "cancelled"}

\* C7: under fair scheduling amain eventually returns, with every worker
\* terminated.
C7_AmainEventuallyReturns ==
    <>(pc = "done" /\ \A w \in Workers : Terminated(w))

\* C8: when hashing one file has failed, the run still completes: amain
\* passes the drain barrier and returns, with every other file in its
\* side's mapping and the failed path absent.
C8_HashFailureDoesNotAbortPool ==
    (\E w \in Workers : wpc[w] = "crashed")
        ~> (/\ pc = "done"
            /\ \A i \in Files : Inserted(i) <=> i \notin unreadable)

----------------------------------------------------------------------------
(* The hashing pipeline: claims C15-C19 *)

InCriticalSection(w) == wpc[w] \in {"insert", "release"}

\* C15: at most one worker is inside the block that inserts into output, and
\* a worker that is at the insert (or has inserted and not yet left the
\* block) holds output_lock.
C15_MutualExclusionOnOutput ==
    /\ Cardinality({w \in Workers : InCriticalSection(w)}) <= 1
    /\ \A w \in Workers : InCriticalSection(w) => output_lock = w

\* one worker is at the insert while the other waits for the lock
C15_Witness ==
    \E w1, w2 \in Workers :
        /\ wpc[w1] = "insert" /\ output_lock = w1
        /\ wpc[w2] = "lock"

\* C16: a worker holds output_lock only across the insert: never while it
\* hashes, waits on get() or calls task_done; and while one worker hashes,
\* the lock is free for any other worker unless that one is inserting.
C16_LockHeldOnlyAcrossInsert ==
    /\ \A w \in Workers : output_lock = w => InCriticalSection(w)
    /\ output_lock # 0 => output_lock \in Workers /\ Live(output_lock)

\* one worker is still hashing while the other holds the lock for its insert
C16_Witness ==
    \E w1, w2 \in Workers :
        /\ wpc[w1] = "hash"
        /\ wpc[w2] = "insert" /\ output_lock = w2

Hashing == {w \in Workers : wpc[w] = "hash"}
Spawned == {w \in Workers : wpc[w] # "unspawned"}

\* C17: the files being hashed at once are never more than the pool size,
\* whatever waits in the queue, and the pool never has more workers than
\* num_workers, none added once the enumeration has started.
C17_ConcurrentHashingBoundedByPool ==
    /\ Cardinality(Hashing) <= num_workers
    /\ Cardinality(Spawned) <= num_workers
    /\ Spawned = 1..spawned
    /\ pc # "spawn" => spawned = num_workers

\* a pool of one worker hashing a file while two more items wait
C17_Witness ==
    /\ num_workers = 1
    /\ Cardinality(Hashing) = 1
    /\ Len(work_queue) >= 2

Unfinished(w) ==
    /\ witem[w] # NoItem
    /\ ~(Inserted(witem[w]) /\ output[witem[w][1]][witem[w][2]] = wdigest[w])

\* C18: a worker is cancelled only once amain is past the drain barrier, and
\* a worker that is about to be cancelled or has been cancelled holds no
\* item it dequeued and did not insert.
C18_CancelOnlyAfterDrain ==
    /\ pc = "cancel" => \A w \in Workers : Live(w) => wpc[w] = "get" /\ ~Unfinished(w)
    /\ \A w \in Workers :
          wpc[w] = "cancelled" => pc \in {"return", "done"} /\ ~Unfinished(w)

\* two workers cancelled, each after an item of its own
C18_Witness ==
    /\ pc = "return"
    /\ \A w \in Workers : wpc[w] = "cancelled" /\ witem[w] # NoItem
    /\ witem[1] # witem[2]

\* C19: output changes only by a worker's insert, never by a step of amain,
\* and never once amain has passed the drain barrier and returned.
C19_OutputWrittenOnlyByWorkersWhileHashing ==
    [][output' # output =>
          /\ \E w \in Workers : Insert(w)
          /\ pc \in {"put_a", "put_b", "join"}
          /\ pc' = pc]_vars

\* amain has returned a mapping with entries for both sides
C19_Witness ==
    /\ pc = "done"
    /\ returned = output
    /\ b_given
    /\ \A d \in Sides : DOMAIN output[d] # {}

----------------------------------------------------------------------------
(* compare_hashes: lines 75-84 *)

\* keys of the mappings compared
MaxKeys == 3

Keys    == 1..MaxKeys
Digests == {hexdigest(c) : c \in Contents}
None    == <<"None", 0>>

\* the mappings from some of the keys to digests
Mappings == UNION {[ks -> Digests] : ks \in SUBSET Keys}

\* d.get(k, default)
DictGet(d, k, default) == IF k \in DOMAIN d THEN d[k] ELSE default

\* lines 76-78: combined[key] = (a.get(key, None), b.get(key, None))
combined(a, b) ==
    [key \in (DOMAIN a) \cup (DOMAIN b) |->
        <<DictGet(a, key, None), DictGet(b, key, None)>>]

bad_without_none_checks(c) == {k \in DOMAIN c : c[k][1] # c[k][2]}

\* lines 79-80
bad(c) ==
    {k \in DOMAIN c : c[k][1] # c[k][2] /\ c[k][1] # None /\ c[k][2] # None}

a_missing_when_present(c) == {k \in DOMAIN c : c[k][1] # None}

\* line 81
a_missing(c) == {k \in DOMAIN c : c[k][1] = None}

\* line 82
b_missing(c) == {k \in DOMAIN c : c[k][2] = None}

compare_hashes_b_missing_first(a, b) ==
    <<bad(combined(a, b)), b_missing(combined(a, b)), a_missing(combined(a, b))>>

\* lines 75-84: return bad, a_missing, b_missing
compare_hashes(a, b) ==
    <<bad(combined(a, b)), a_missing(combined(a, b)), b_missing(combined(a, b))>>

\* every pair of mappings over the keys, nothing else running
InitCmp ==
    /\ cmp_pc = "call"
    /\ cmp_a \in Mappings
    /\ cmp_b \in Mappings
    /\ cmp_out = <<{}, {}, {}>>
    /\ PipeIdle
    /\ NormIdle
    /\ MainIdle

\* line 159: bad, a_missing, b_missing = compare_hashes(a, b)
Compare ==
    /\ cmp_pc = "call"
    /\ cmp_out' = compare_hashes(cmp_a, cmp_b)
    /\ cmp_pc' = "done"
    /\ UNCHANGED <<cmp_a, cmp_b, varsPipe, varsNorm, varsMain>>

NextCmp == Compare

SpecCmp == InitCmp /\ [][NextCmp]_vars

----------------------------------------------------------------------------
(* The comparison: claims C1-C3 *)

InBoth   == (DOMAIN cmp_a) \cap (DOMAIN cmp_b)
AllKeys  == (DOMAIN cmp_a) \cup (DOMAIN cmp_b)
matched  == {k \in InBoth : cmp_a[k] = cmp_b[k]}

PairwiseDisjoint(sets) ==
    \A m, n \in 1..Len(sets) : m # n => sets[m] \cap sets[n] = {}

\* C1: the three sets compare_hashes returns and the matched keys are
\* pairwise disjoint and their union is keys(A) \cup keys(B).
C1_PartitionOfKeyUnion ==
    cmp_pc = "done" =>
        /\ PairwiseDisjoint(<<cmp_out[1], cmp_out[2], cmp_out[3], matched>>)
        /\ cmp_out[1] \cup cmp_out[2] \cup cmp_out[3] \cup matched = AllKeys

\* a comparison with a mismatched key, a matched key and a one-sided key
C1_Witness ==
    /\ cmp_pc = "done"
    /\ cmp_out[1] # {}
    /\ matched # {}
    /\ cmp_out[2] \cup cmp_out[3] # {}

\* C2: compare_hashes returns, in this order, the keys in both with
\* differing digests, the keys in B and not in A, the keys in A and not in
\* B; a key in both with equal digests is in none of them.
C2_ThreeSetsInOrder ==
    cmp_pc = "done" =>
        /\ cmp_out[1] = {k \in InBoth : cmp_a[k] # cmp_b[k]}
        /\ cmp_out[2] = (DOMAIN cmp_b) \ (DOMAIN cmp_a)
        /\ cmp_out[3] = (DOMAIN cmp_a) \ (DOMAIN cmp_b)
        /\ \A k \in matched : k \notin cmp_out[1] \cup cmp_out[2] \cup cmp_out[3]

\* a comparison with a matched key, a key only in B and a key only in A
C2_Witness ==
    /\ cmp_pc = "done"
    /\ matched # {}
    /\ (DOMAIN cmp_b) \ (DOMAIN cmp_a) # {}
    /\ (DOMAIN cmp_a) \ (DOMAIN cmp_b) # {}

\* C3: comparing a mapping against itself yields three empty sets.
C3_SelfComparisonIsEmpty ==
    (cmp_pc = "done" /\ cmp_a = cmp_b) => cmp_out = <<{}, {}, {}>>

\* a full mapping compared against itself
C3_Witness ==
    /\ cmp_pc = "done"
    /\ cmp_a = cmp_b
    /\ DOMAIN cmp_a = Keys
    /\ \E k1, k2 \in Keys : cmp_a[k1] # cmp_a[k2]

----------------------------------------------------------------------------
(* Path strings: a str is the sequence of its characters *)

\* longest path string
MaxPathLen == 4

sep   == "/"
Chars == {sep, "a", "b"}

\* ord(c), for the order of str
Ord(c) == CASE c = "." -> 46 [] c = sep -> 47 [] c = "a" -> 97 [] c = "b" -> 98

IsAbs(path) == Len(path) > 0 /\ path[1] = sep

\* the paths of files: no empty segment, no trailing separator
FilePath(path) ==
    /\ path[Len(path)] # sep
    /\ \A n \in 1..(Len(path) - 1) : ~(path[n] = sep /\ path[n + 1] = sep)

PathStrings ==
    {path \in UNION {[1..n -> Chars] : n \in 1..MaxPathLen} : FilePath(path)}

\* s[n:]
SliceFrom(s, n) == SubSeq(s, n + 1, Len(s))

\* s[:n]
SliceTo(s, n) == SubSeq(s, 1, IF n < Len(s) THEN n ELSE Len(s))

\* s.split(sep)
RECURSIVE split(_)
split(s) ==
    IF s = <<>> THEN << <<>> >>
    ELSE LET rest == split(Tail(s))
         IN  IF Head(s) = sep
                THEN << <<>> >> \o rest
                ELSE << <<Head(s)>> \o Head(rest) >> \o Tail(rest)

\* sep.join(segments)
RECURSIVE sep_join(_)
sep_join(segments) ==
    IF segments = <<>> THEN <<>>
    ELSE IF Len(segments) = 1 THEN Head(segments)
    ELSE Head(segments) \o <<sep>> \o sep_join(Tail(segments))

\* x < y for str
RECURSIVE StrLess(_, _)
StrLess(x, y) ==
    IF y = <<>> THEN FALSE
    ELSE IF x = <<>> THEN TRUE
    ELSE IF Head(x) # Head(y) THEN Ord(Head(x)) < Ord(Head(y))
    ELSE StrLess(Tail(x), Tail(y))

\* x < y for lists of str
RECURSIVE ListLess(_, _)
ListLess(x, y) ==
    IF y = <<>> THEN FALSE
    ELSE IF x = <<>> THEN TRUE
    ELSE IF Head(x) # Head(y) THEN StrLess(Head(x), Head(y))
    ELSE ListLess(Tail(x), Tail(y))

ListMin(lists) == CHOOSE x \in lists : \A y \in lists : x = y \/ ListLess(x, y)
ListMax(lists) == CHOOSE x \in lists : \A y \in lists : x = y \/ ListLess(y, x)

\* posixpath.commonpath: [c for c in s if c and c != curdir]
Segments(path) == SelectSeq(split(path), LAMBDA c : c # <<>> /\ c # <<".">>)

\* posixpath.commonpath: the loop over enumerate(s1), which returns s1[:i] at
\* the first i with s1[i] != s2[i], and s1 when there is none
RECURSIVE CommonSegments(_, _)
CommonSegments(s1, s2) ==
    IF s1 = <<>> \/ s2 = <<>> THEN <<>>
    ELSE IF Head(s1) # Head(s2) THEN <<>>
    ELSE <<Head(s1)>> \o CommonSegments(Tail(s1), Tail(s2))

ValueError == <<"ValueError", <<>>>>

\* the longest string every path starts with, character by character
RECURSIVE CommonChars(_, _)
CommonChars(x, y) ==
    IF x = <<>> \/ y = <<>> THEN <<>>
    ELSE IF Head(x) # Head(y) THEN <<>>
    ELSE <<Head(x)>> \o CommonChars(Tail(x), Tail(y))

commonprefix_by_character(paths) ==
    IF paths = {} THEN ValueError
    ELSE IF Cardinality({IsAbs(path) : path \in paths}) # 1 THEN ValueError
    ELSE LET one == CHOOSE path \in paths : TRUE
             lens == {Len(CommonChars(one, path)) : path \in paths}
         IN  <<"ok", SliceTo(one, CHOOSE n \in lens : \A m \in lens : n <= m)>>

commonpath_empty_for_no_path(paths) ==
    IF paths = {} THEN <<"ok", <<>>>>
    ELSE IF Cardinality({IsAbs(path) : path \in paths}) # 1 THEN ValueError
    ELSE LET split_paths == {Segments(path) : path \in paths}
             common == CommonSegments(ListMin(split_paths), ListMax(split_paths))
             isabs == \A path \in paths : IsAbs(path)
         IN  <<"ok", (IF isabs THEN <<sep>> ELSE <<>>) \o sep_join(common)>>

\* os.path.commonpath(paths): ValueError for no path and for absolute mixed
\* with relative; else the separator of absolute paths, then the common
\* leading segments of the least and the greatest split path, joined
commonpath(paths) ==
    IF paths = {} THEN ValueError
    ELSE IF Cardinality({IsAbs(path) : path \in paths}) # 1 THEN ValueError
    ELSE LET split_paths == {Segments(path) : path \in paths}
             common == CommonSegments(ListMin(split_paths), ListMax(split_paths))
             isabs == \A path \in paths : IsAbs(path)
         IN  <<"ok", (IF isabs THEN <<sep>> ELSE <<>>) \o sep_join(common)>>

\* os.path.join(a, p), posixpath
os_path_join(a, p) ==
    IF IsAbs(p) THEN p
    ELSE IF a = <<>> \/ a[Len(a)] = sep THEN a \o p
    ELSE a \o <<sep>> \o p

\* os.path.dirname(path), posixpath: up to the last separator, without the
\* separators that end it unless it is all separators
dirname(path) ==
    LET seps == {n \in 1..Len(path) : path[n] = sep}
        i    == IF seps = {} THEN 0 ELSE CHOOSE n \in seps : \A m \in seps : m <= n
        head == SliceTo(path, i)
        cut  == {n \in 0..Len(head) : \A m \in (n + 1)..Len(head) : head[m] = sep}
        keep == CHOOSE n \in cut : \A m \in cut : n <= m
    IN  IF head # <<>> /\ keep = 0 THEN head ELSE SliceTo(head, keep)

\* os.path.basename(path), posixpath: after the last separator
basename(path) ==
    LET seps == {n \in 1..Len(path) : path[n] = sep}
        i    == IF seps = {} THEN 0 ELSE CHOOSE n \in seps : \A m \in seps : m <= n
    IN  SliceFrom(path, i)

----------------------------------------------------------------------------
(* normalize_paths: lines 68-72 *)

\* line 70
prefix_len(prefix) == Len(prefix) + 1

\* line 71: k[prefix_len:]
normalized_key(k, prefix) == SliceFrom(k, prefix_len(prefix))

\* line 71: the dict comprehension; of the input keys that give the same
\* normalized key the one the dict iterates last gives it its value
normalized_dicts(input, prefix) ==
    LET nkeys == {normalized_key(k, prefix) : k \in DOMAIN input}
    IN  {n \in [nkeys -> Digests] :
            \A nk \in nkeys :
                \E k \in DOMAIN input :
                    normalized_key(k, prefix) = nk /\ input[k] = n[nk]}

\* the mappings normalize_paths is given: no key, one key, or two keys
PathMappings ==
    UNION {[ks -> Digests] :
              ks \in {{}} \cup {{k1, k2} : k1 \in PathStrings, k2 \in PathStrings}}

InitNorm ==
    /\ np_pc = "call"
    /\ np_in \in PathMappings
    /\ np_out = <<<<>>, EmptyDict>>
    /\ PipeIdle
    /\ CmpIdle
    /\ MainIdle

\* lines 68-72: normalize_paths(input), returning prefix, normalized or
\* leaving with commonpath's ValueError
normalize_paths ==
    /\ np_pc = "call"
    /\ LET cp == commonpath(DOMAIN np_in)
       IN  IF cp = ValueError
              THEN np_pc' = "raised" /\ np_out' = np_out
              ELSE /\ np_pc' = "done"
                   /\ \E n \in normalized_dicts(np_in, cp[2]) :
                         np_out' = <<cp[2], n>>
    /\ UNCHANGED <<np_in, varsPipe, varsCmp, varsMain>>

NextNorm == normalize_paths

SpecNorm == InitNorm /\ [][NextNorm]_vars

----------------------------------------------------------------------------
(* Normalisation: claims C9, C10 *)

\* C9: for every non-empty mapping, every normalized key has no leading
\* separator, and os.path.join(prefix, key) is a key of the input mapping.
C9_NormalizationRoundTrip ==
    np_pc = "done" =>
        \A nk \in DOMAIN np_out[2] :
            /\ ~IsAbs(nk)
            /\ os_path_join(np_out[1], nk) \in DOMAIN np_in

\* C10: for a mapping of exactly one key the prefix is the key's containing
\* directory and the one normalized key is the file's name, which is not
\* empty.
C10_SingleKeyPrefixIsContainingDirectory ==
    (np_pc = "done" /\ Cardinality(DOMAIN np_in) = 1) =>
        \A k \in DOMAIN np_in :
            /\ np_out[1] = dirname(k)
            /\ DOMAIN np_out[2] = {basename(k)}
            /\ basename(k) # <<>>

----------------------------------------------------------------------------
(* Normalisation: claim C20 *)

IsSegmentPrefix(p, q) == Len(p) <= Len(q) /\ SubSeq(q, 1, Len(p)) = p

\* C20: the prefix normalize_paths returns is made of whole segments, these
\* are leading segments of every key, and no further segment is shared by all
\* keys.
C20_PrefixIsLongestCommonSegmentPrefix ==
    np_pc = "done" =>
        LET keys == DOMAIN np_in
            ps   == Segments(np_out[1])
            n    == Len(ps)
        IN  /\ np_out[1] =
                  (IF \A k \in keys : IsAbs(k) THEN <<sep>> ELSE <<>>) \o sep_join(ps)
            /\ \A k \in keys : IsSegmentPrefix(ps, Segments(k))
            /\ \/ \E k \in keys : Len(Segments(k)) = n
               \/ \E k1, k2 \in keys : Segments(k1)[n + 1] # Segments(k2)[n + 1]

\* keys a/b and a/bb, which share the characters a/b and the segment a
C20_Witness ==
    /\ np_pc = "done"
    /\ DOMAIN np_in = {<<"a", sep, "b">>, <<"a", sep, "b", "b">>}
    /\ np_out[1] = <<"a">>

----------------------------------------------------------------------------
(* main: lines 117-179 *)

\* the two trees, and the file names below each: names[1..MaxKeys]
Root(d) == IF d = "a" THEN <<sep, "a">> ELSE <<sep, "b">>

NameList ==
    << <<"b">>, <<"a">>, <<"b", "b", sep, "a">>, <<"a", "b">>, <<"b", "a">>,
       <<"a", "a">> >>

Names == {NameList[n] : n \in 1..MaxKeys}

\* line 36: os.path.join(dirpath, filename), for every file of tree d
TreePaths(d) == {Root(d) \o <<sep>> \o name : name \in Names}

\* what hashing tree d can give, and what a manifest of it can hold
SideMappings(d) == UNION {[ks -> Digests] : ks \in SUBSET TreePaths(d)}

ABSENT == <<"ABSENT", 0>>

\* sorted(keys), for str keys
RECURSIVE sorted(_)
sorted_descending(keys) ==
    IF keys = {} THEN <<>>
    ELSE LET top == CHOOSE x \in keys : \A y \in keys : x = y \/ StrLess(y, x)
         IN  <<top>> \o sorted(keys \ {top})

sorted(keys) ==
    IF keys = {} THEN <<>>
    ELSE LET least == CHOOSE x \in keys : \A y \in keys : x = y \/ StrLess(x, y)
         IN  <<least>> \o sorted(keys \ {least})

invalid_dirs_checking_a_only(a) == ~a.a_isdir

\* lines 126-128: dir_a is no directory, or dir_b is given and is none
invalid_dirs(a) == (~a.a_isdir) \/ (a.dir_b /\ ~a.b_isdir)

InitMain ==
    /\ args \in [mode : {"dirs", "manifests"}, dir_b : BOOLEAN,
                 a_isdir : BOOLEAN, b_isdir : BOOLEAN]
    /\ args.mode = "manifests" =>
          args.dir_b = FALSE /\ args.a_isdir = FALSE /\ args.b_isdir = FALSE
    /\ (args.mode = "dirs" /\ ~args.dir_b) => args.b_isdir = FALSE
    /\ on_disk \in [Sides -> UNION {SideMappings(d) : d \in Sides}]
    /\ \A d \in Sides : on_disk[d] \in SideMappings(d)
    \* a path that is no directory has no files below it
    /\ (args.mode = "dirs" /\ ~args.a_isdir) => on_disk["a"] = EmptyDict
    /\ (args.mode = "dirs" /\ ~args.b_isdir) => on_disk["b"] = EmptyDict
    /\ m_pc = "start"
    /\ m_output = EmptyDict
    /\ m_norm = [d \in Sides |-> <<<<>>, EmptyDict>>]
    /\ m_sets = <<{}, {}, {}>>
    /\ stdout = <<>>
    /\ exit_status = NotExited
    /\ raised = ""
    /\ amain_calls = 0
    /\ compare_calls = 0
    /\ PipeIdle
    /\ CmpIdle
    /\ NormIdle

\* lines 125-132: directory mode with a bad directory: log the error, return 1
MainInvalidDirs ==
    /\ m_pc = "start"
    /\ args.mode = "dirs"
    /\ invalid_dirs(args)
    /\ exit_status' = 1
    /\ m_pc' = "exit"
    /\ UNCHANGED <<args, on_disk, m_output, m_norm, m_sets, stdout, raised,
                   amain_calls, compare_calls, varsPipe, varsCmp, varsNorm>>

\* lines 133-142: output = curio.run(amain, ...), a run of amain that returns:
\* each tree's paths with the digests of their files (a run in which a file
\* cannot be hashed does not return)
MainHash ==
    /\ m_pc = "start"
    /\ args.mode = "dirs"
    /\ ~invalid_dirs(args)
    /\ m_output' = [d \in (IF args.dir_b THEN Sides ELSE {"a"}) |-> on_disk[d]]
    /\ amain_calls' = amain_calls + 1
    /\ m_pc' = IF args.dir_b THEN "normalize" ELSE "listing"
    /\ UNCHANGED <<args, on_disk, m_norm, m_sets, stdout, exit_status, raised,
                   compare_calls, varsPipe, varsCmp, varsNorm>>

\* lines 144-147: one directory: print the sorted hashes, return None
MainListing ==
    /\ m_pc = "listing"
    /\ LET ks == sorted(DOMAIN m_output["a"])
       IN  stdout' = [n \in 1..Len(ks) |-> <<m_output["a"][ks[n]], ks[n]>>]
    /\ exit_status' = 0
    /\ m_pc' = "exit"
    /\ UNCHANGED <<args, on_disk, m_output, m_norm, m_sets, raised,
                   amain_calls, compare_calls, varsPipe, varsCmp, varsNorm>>

\* lines 148-155: manifest mode: read the two files of hashes
MainLoadManifests ==
    /\ m_pc = "start"
    /\ args.mode = "manifests"
    /\ m_output' = [d \in Sides |-> on_disk[d]]
    /\ m_pc' = "normalize"
    /\ UNCHANGED <<args, on_disk, m_norm, m_sets, stdout, exit_status, raised,
                   amain_calls, compare_calls, varsPipe, varsCmp, varsNorm>>

\* lines 157-158: normalize_paths(output['a']), then normalize_paths(output['b']);
\* a ValueError of either is not caught: traceback, exit status 1
MainNormalize ==
    /\ m_pc = "normalize"
    /\ LET cpa == commonpath(DOMAIN m_output["a"])
           cpb == commonpath(DOMAIN m_output["b"])
       IN  IF cpa = ValueError
              THEN /\ raised' = "ValueError"
                   /\ exit_status' = 1
                   /\ m_pc' = "exit"
                   /\ m_norm' = m_norm
           ELSE IF cpb = ValueError
              THEN /\ raised' = "ValueError"
                   /\ exit_status' = 1
                   /\ m_pc' = "exit"
                   /\ \E na \in normalized_dicts(m_output["a"], cpa[2]) :
                         m_norm' = [m_norm EXCEPT !["a"] = <<cpa[2], na>>]
           ELSE /\ \E na \in normalized_dicts(m_output["a"], cpa[2]) :
                   \E nb \in normalized_dicts(m_output["b"], cpb[2]) :
                         m_norm' = [a |-> <<cpa[2], na>>, b |-> <<cpb[2], nb>>]
                /\ m_pc' = "compare"
                /\ UNCHANGED <<raised, exit_status>>
    /\ UNCHANGED <<args, on_disk, m_output, m_sets, stdout, amain_calls,
                   compare_calls, varsPipe, varsCmp, varsNorm>>

\* line 159: bad, a_missing, b_missing = compare_hashes(a_normalized, b_normalized)
MainCompare ==
    /\ m_pc = "compare"
    /\ m_sets' = compare_hashes(m_norm["a"][2], m_norm["b"][2])
    /\ compare_calls' = compare_calls + 1
    /\ m_pc' = "report"
    /\ UNCHANGED <<args, on_disk, m_output, m_norm, stdout, exit_status, raised,
                   amain_calls, varsPipe, varsCmp, varsNorm>>

\* lines 164-166, 169-171, 174-176: the block printed for one key: the key
\* (kept for reference, not printed), the line of A and the line of B
Block(path, a_digest, b_digest) ==
    <<path,
      <<a_digest, os_path_join(m_norm["a"][1], path)>>,
      <<b_digest, os_path_join(m_norm["b"][1], path)>>>>

\* lines 162-176: the three loops
report_blocks(sets) ==
    LET a_normalized == m_norm["a"][2]
        b_normalized == m_norm["b"][2]
        s1 == sorted(sets[1])
        s2 == sorted(sets[3])
        s3 == sorted(sets[2])
    IN  [n \in 1..Len(s1) |-> Block(s1[n], a_normalized[s1[n]], b_normalized[s1[n]])]
        \o [n \in 1..Len(s2) |-> Block(s2[n], a_normalized[s2[n]], ABSENT)]
        \o [n \in 1..Len(s3) |-> Block(s3[n], ABSENT, b_normalized[s3[n]])]

report_status_unless_only_a_missing(sets) ==
    IF sets[1] # {} \/ sets[3] # {} THEN 1 ELSE 0

\* lines 161-179: dirty is set by every pass of a loop; return 1 if dirty,
\* else None (exit status 0)
report_status(sets) ==
    IF sets[1] # {} \/ sets[3] # {} \/ sets[2] # {} THEN 1 ELSE 0

\* lines 161-179: print the differences, return the status
MainReport ==
    /\ m_pc = "report"
    /\ stdout' = report_blocks(m_sets)
    /\ exit_status' = report_status(m_sets)
    /\ m_pc' = "exit"
    /\ UNCHANGED <<args, on_disk, m_output, m_norm, m_sets, raised,
                   amain_calls, compare_calls, varsPipe, varsCmp, varsNorm>>

NextMain ==
    \/ MainInvalidDirs
    \/ MainHash
    \/ MainListing
    \/ MainLoadManifests
    \/ MainNormalize
    \/ MainCompare
    \/ MainReport

SpecMain == InitMain /\ [][NextMain]_vars

----------------------------------------------------------------------------
(* main: claims C11-C14 *)

\* main compares: two directories, or two manifests
ComparisonMode == args.mode = "manifests" \/ (args.mode = "dirs" /\ args.dir_b)

\* main holds the mappings of both sides
Loaded == DOMAIN m_output = Sides

IsEmptySide(d) == DOMAIN m_output[d] = {}

\* C11: when a side's mapping is empty, normalize_paths does not return a
\* result for it; main ends with the error and a non-zero exit status, having
\* compared nothing and printed nothing.
C11_EmptyMappingIsFatal ==
    (Loaded /\ \E d \in Sides : IsEmptySide(d)) =>
        /\ m_pc \in {"normalize", "exit"}
        /\ compare_calls = 0
        /\ stdout = <<>>
        /\ \A d \in Sides : IsEmptySide(d) => m_norm[d] = <<<<>>, EmptyDict>>
        /\ m_pc = "exit" => raised = "ValueError" /\ exit_status = 1

\* main ended by the ValueError of the empty side b, side a being normalized
C11_Witness ==
    /\ m_pc = "exit"
    /\ raised = "ValueError"
    /\ Loaded
    /\ ~IsEmptySide("a") /\ IsEmptySide("b")
    /\ m_norm["a"] # <<<<>>, EmptyDict>>

AnyDifference == m_sets[1] # {} \/ m_sets[2] # {} \/ m_sets[3] # {}

\* C12 as stated: in comparison mode the exit status is 1 exactly when one of
\* the three sets is non-empty and 0 exactly when all three are empty.
C12_ExitStatusIffDifference ==
    (m_pc = "exit" /\ ComparisonMode) =>
        /\ exit_status = 1 <=> AnyDifference
        /\ exit_status = 0 <=> ~AnyDifference

\* C12, amended: in comparison mode, when main has called compare_hashes the
\* exit status is 1 exactly when one of the three sets is non-empty and 0
\* exactly when all three are empty; when it has not (a directory is invalid,
\* or normalize_paths raised), the exit status is 1.
C12_ExitStatusIffDifferenceWhenCompared ==
    (m_pc = "exit" /\ ComparisonMode) =>
        IF compare_calls = 1
           THEN /\ exit_status = 1 <=> AnyDifference
                /\ exit_status = 0 <=> ~AnyDifference
           ELSE exit_status = 1 /\ ~AnyDifference

\* main returned 1 for keys that only B has, nothing else differing
C12_Witness ==
    /\ m_pc = "exit"
    /\ compare_calls = 1
    /\ exit_status = 1
    /\ m_sets[1] = {} /\ m_sets[3] = {} /\ m_sets[2] # {}

\* the class of the n-th block printed: 1 both digests, 2 B is ABSENT, 3 A is
\* ABSENT
BlockClass(n) ==
    IF stdout[n][3][1] = ABSENT THEN 2
    ELSE IF stdout[n][2][1] = ABSENT THEN 3
    ELSE 1

BlockKeys(class) == {stdout[n][1] : n \in {m \in 1..Len(stdout) : BlockClass(m) = class}}

\* C13: the blocks come class by class (mismatched, then only in A with B
\* ABSENT, then only in B with A ABSENT), in ascending order of the key
\* within a class, one block for every differing or missing key and no other,
\* each with the digests and the rejoined paths of its key.
C13_ReportIsOrderedAndComplete ==
    (m_pc = "exit" /\ compare_calls = 1) =>
        LET a_normalized == m_norm["a"][2]
            b_normalized == m_norm["b"][2]
            both == (DOMAIN a_normalized) \cap (DOMAIN b_normalized)
        IN  /\ \A i, j \in 1..Len(stdout) :
                  i < j =>
                     \/ BlockClass(i) < BlockClass(j)
                     \/ /\ BlockClass(i) = BlockClass(j)
                        /\ StrLess(stdout[i][1], stdout[j][1])
            /\ BlockKeys(1) = {k \in both : a_normalized[k] # b_normalized[k]}
            /\ BlockKeys(2) = (DOMAIN a_normalized) \ (DOMAIN b_normalized)
            /\ BlockKeys(3) = (DOMAIN b_normalized) \ (DOMAIN a_normalized)
            /\ \A n \in 1..Len(stdout) :
                  LET k == stdout[n][1]
                  IN  /\ stdout[n][2] =
                            <<DictGet(a_normalized, k, ABSENT),
                              os_path_join(m_norm["a"][1], k)>>
                      /\ stdout[n][3] =
                            <<DictGet(b_normalized, k, ABSENT),
                              os_path_join(m_norm["b"][1], k)>>

\* a report with two blocks of one class and blocks of two classes
C13_Witness ==
    /\ m_pc = "exit"
    /\ compare_calls = 1
    /\ \E i, j \in 1..Len(stdout) : i < j /\ BlockClass(i) = BlockClass(j)
    /\ \E i, j \in 1..Len(stdout) : BlockClass(i) # BlockClass(j)

\* C14: in directory mode with dir A no directory, or dir B given and no
\* directory, main ends with exit status 1 without having run amain (no
\* worker spawned, no file enumerated or hashed) and without printing.
C14_InvalidDirectoryReturnsOneBeforeAnyWork ==
    (args.mode = "dirs" /\ (~args.a_isdir \/ (args.dir_b /\ ~args.b_isdir))) =>
        /\ m_pc \in {"start", "exit"}
        /\ amain_calls = 0
        /\ DOMAIN m_output = {}
        /\ stdout = <<>>
        /\ m_pc = "exit" => exit_status = 1 /\ raised = ""

\* main ended on dir B being no directory, dir A being one with files
C14_Witness ==
    /\ m_pc = "exit"
    /\ args.mode = "dirs"
    /\ args.a_isdir /\ args.dir_b /\ ~args.b_isdir
    /\ DOMAIN on_disk["a"] # {}

====
